---- MODULE Spec2Model ----
(***************************************************************************)
(* Joints of build123d (src/src/build123d/joints.py) and the location      *)
(* pickling helpers (src/src/build123d/persistence.py).                    *)
(*                                                                         *)
(* Geometry is modelled exactly on the octahedral lattice: vectors are     *)
(* integer triples, directions are signed unit basis vectors, angles are   *)
(* integer degrees that are multiples of 90, and a Location is a rotation  *)
(* matrix (its three columns) with a translation.                          *)
(***************************************************************************)
EXTENDS Integers, Sequences, FiniteSets, TLC

\* ------------------------------------------------------------------ bounds
MaxJoints == 2
MaxCalls == 2
MaxPickleCoord == 1

\* ------------------------------------------------------------ vector algebra
VAdd(a, b) == <<a[1] + b[1], a[2] + b[2], a[3] + b[3]>>

VScale(a, k) == <<a[1] * k, a[2] * k, a[3] * k>>

VNeg(a) == VScale(a, -1)

Dot(a, b) == a[1] * b[1] + a[2] * b[2] + a[3] * b[3]

Cross(a, b) ==
    <<a[2] * b[3] - a[3] * b[2], a[3] * b[1] - a[1] * b[3], a[1] * b[2] - a[2] * b[1]>>

Abs(n) == IF n < 0 THEN -n ELSE n

VX == <<1, 0, 0>>
VY == <<0, 1, 0>>
VZ == <<0, 0, 1>>
VZero == <<0, 0, 0>>

\* cos and sin of an angle in degrees that is a multiple of 90
CosD(a) == CASE (a % 360) = 0 -> 1 [] (a % 360) = 180 -> -1 [] OTHER -> 0

SinD(a) == CASE (a % 360) = 90 -> 1 [] (a % 360) = 270 -> -1 [] OTHER -> 0

\* Vector.rotate(axis, angle): v turned by angle degrees about direction d
VRotate(v, d, a) ==
    VAdd(VAdd(VScale(v, CosD(a)), VScale(Cross(d, v), SinD(a))),
         VScale(d, Dot(d, v) * (1 - CosD(a))))

\* ---------------------------------------------------------- rotation matrices
MatVec(m, v) == VAdd(VAdd(VScale(m[1], v[1]), VScale(m[2], v[2])), VScale(m[3], v[3]))

MatMul(a, b) == <<MatVec(a, b[1]), MatVec(a, b[2]), MatVec(a, b[3])>>

Transpose(m) ==
    << <<m[1][1], m[2][1], m[3][1]>>,
       <<m[1][2], m[2][2], m[3][2]>>,
       <<m[1][3], m[2][3], m[3][3]>> >>

MatId == <<VX, VY, VZ>>

\* ------------------------------------------------------------------ Location
Loc(r, t) == [r |-> r, t |-> t]

\* Location(): the identity
LocIdentity == Loc(MatId, VZero)

\* Location(Vector): a pure translation
LocOfVector(v) == Loc(MatId, v)

\* Location.__mul__: a * b applies b first, then a
LocMul(a, b) == Loc(MatMul(a.r, b.r), VAdd(MatVec(a.r, b.t), a.t))

\* Location.inverse()
LocInverse(a) == Loc(Transpose(a.r), VNeg(MatVec(Transpose(a.r), a.t)))

\* Location.relative_to(ref) == ref.inverse() * self
RelativeTo(a, ref) == LocMul(LocInverse(ref), a)

\* --------------------------------------------------------------- Plane, Axis
\* the x direction the kernel derives for a frame given only its z direction
DefaultXDir(z) ==
    LET A == z[1]
        B == z[2]
        C == z[3]
    IN  IF Abs(B) <= Abs(A) /\ Abs(B) <= Abs(C)
        THEN (IF Abs(A) > Abs(C) THEN <<-C, 0, A>> ELSE <<C, 0, -A>>)
        ELSE IF Abs(A) <= Abs(B) /\ Abs(A) <= Abs(C)
        THEN (IF Abs(B) > Abs(C) THEN <<0, -C, B>> ELSE <<0, C, -B>>)
        ELSE (IF Abs(A) > Abs(B) THEN <<-B, A, 0>> ELSE <<B, -A, 0>>)

\* Plane(origin, x_dir, z_dir) exists only when x_dir is not parallel to z_dir
PlaneOK(x, z) == Dot(x, z) = 0

\* Location(Plane(origin, x_dir, z_dir)): columns x, z cross x, z
LocOfPlane(o, x, z) == Loc(<<x, Cross(z, x), z>>, o)

Axis(p, d) == [position |-> p, direction |-> d]

AxisZ == Axis(VZero, VZ)

\* Axis.located(location): the axis moved by the location's transformation
Located(ax, l) == Axis(VAdd(MatVec(l.r, ax.position), l.t), MatVec(l.r, ax.direction))

\* Axis.to_location(): Location(Plane(origin=position, z_dir=direction))
AxisToLocation(ax) == LocOfPlane(ax.position, DefaultXDir(ax.direction), ax.direction)

\* Axis.is_normal(other): the two directions are perpendicular
IsNormal(ax, other) == Dot(ax.direction, other.direction) = 0

\* Rotation(x, y, z): intrinsic rotations about X, then Y, then Z
RotX(a) == <<VX, VRotate(VY, VX, a), VRotate(VZ, VX, a)>>

RotY(a) == <<VRotate(VX, VY, a), VY, VRotate(VZ, VY, a)>>

RotZ(a) == <<VRotate(VX, VZ, a), VRotate(VY, VZ, a), VZ>>

Rotation(x, y, z) == Loc(MatMul(MatMul(RotX(x), RotY(y)), RotZ(z)), VZero)

\* Location.orientation: the X, Y, Z angles of the location's rotation, each in
\* (-180, 180], Y in [-90, 90], Z = 0 when Y is +-90
EulerCandidates ==
    {e \in {-90, 0, 90, 180} \X {-90, 0, 90} \X {-90, 0, 90, 180} :
        e[2] # 0 => e[3] = 0}

Orientation(l) ==
    CHOOSE e \in EulerCandidates : Rotation(e[1], e[2], e[3]).r = l.r

\* Plane.XY.to_location()
PlaneXYLocation == LocIdentity

\* ------------------------------------------------------- optional attributes
\* an attribute that was never assigned, one that holds None, one that holds x
Absent == [k |-> "absent", v |-> 0]
None == [k |-> "none", v |-> 0]
Val(x) == [k |-> "val", v |-> x]
NoAngles == [k |-> "none", v |-> <<0, 0, 0>>]
SomeAngles(t) == [k |-> "val", v |-> t]

\* ------------------------------------------------------------------- inputs
Bodies == {1, 2}
Labels == {"a", "b"}

\* placements a JointBox is given before any joint is attached to it
BasePlacements == {Loc(RotX(90), <<0, 1, 0>>)}

JointLocations == {Loc(RotY(90), <<1, 0, 0>>)}
Axes == {Axis(VZero, VZ), Axis(<<1, 0, 0>>, VX)}
AngleReferences == {[k |-> "none", v |-> VZero], [k |-> "val", v |-> VX]}
AngleRanges == {<<0, 360>>}
LinearRanges == {<<0, 2>>}
\* a range tuple whose first member exceeds its second; the constructors take a
\* tuple[float, float] and store it as given
InvertedRanges == {<<2, 0>>}
BallRanges == {<< <<0, 360>>, <<0, 360>>, <<0, 360>> >>}

AngleArgs == {None, Val(0), Val(90), Val(360), Val(450)}
PositionArgs == {None, Val(2), Val(3)}
AnglesArgs == {NoAngles, SomeAngles(<<0, 0, 90>>), SomeAngles(<<0, 0, 270>>)}

\* -------------------------------------------------------------------- state
VARIABLES
    location,   \* location[b]: the placement of body b (Shape.location)
    joints,     \* joints[b][label]: JointBox.joints, 0 where the label is unbound
    heap,       \* heap[i]: the i-th Joint object that was constructed
    last,       \* the latest call and how it ended
    calls,      \* the number of connect_to calls made so far
    subject,    \* the TopLoc_Location handed to pickle, or None
    buffer,     \* what serialize_location returned for it
    loaded,     \* what deserialize_location returned for the buffer
    stage       \* how far the pickling of subject has come

pickling == <<subject, buffer, loaded, stage>>

vars == <<location, joints, heap, last, calls, pickling>>

\* the attributes of a Joint object; an attribute its class never assigns keeps
\* the placeholder given here
BlankJoint ==
    [type |-> "", label |-> "", to_part |-> 0, parent |-> 0, connected_to |-> 0,
     relative_location |-> LocIdentity, axis |-> AxisZ, relative_axis |-> AxisZ,
     angle_reference |-> VZero, range |-> <<0, 0>>,
     linear_range |-> <<0, 0>>, rotational_range |-> <<0, 0>>,
     angle_range |-> << <<0, 0>>, <<0, 0>>, <<0, 0>> >>,
     angle |-> Absent, position |-> Absent,
     linear_position |-> Absent, rotational_position |-> Absent]

\* a call and its arguments; err is the exception it raised, "none" if it returned
BlankCall ==
    [op |-> "init", self |-> 0, other |-> 0, position |-> None, angle |-> None,
     angles |-> NoAngles, label |-> "", to_part |-> 0, axis |-> AxisZ,
     angle_reference |-> [k |-> "none", v |-> VZero], err |-> "none", repeated |-> FALSE]

\* self.connect_to(other, position, angle) or self.connect_to(other, angles)
ConnectCall(op, self, other, position, angle, angles) ==
    [BlankCall EXCEPT !.op = op, !.self = self, !.other = other, !.position = position,
                      !.angle = angle, !.angles = angles]

\* Class(label, to_part, axis, angle_reference, ...)
NewCall(op, label, to_part, axis, angle_reference) ==
    [BlankCall EXCEPT !.op = op, !.label = label, !.to_part = to_part, !.axis = axis,
                      !.angle_reference = angle_reference]

NoReference == [k |-> "none", v |-> VZero]

ConnectOps ==
    {"Rigid.connect_to", "Revolute.connect_to", "Linear.connect_to",
     "Cylindrical.connect_to", "Ball.connect_to"}

\* nothing is being pickled
NoLocation == [k |-> "none", v |-> LocIdentity]
SomeLocation(l) == [k |-> "val", v |-> l]
NoBuffer == [k |-> "none", v |-> <<>>]
SomeBuffer(b) == [k |-> "val", v |-> b]

NotPickling ==
    /\ subject = NoLocation
    /\ buffer = NoBuffer
    /\ loaded = NoLocation
    /\ stage = "idle"

Init ==
    /\ NotPickling
    /\ location \in {[b \in Bodies |-> IF b = 1 THEN base ELSE LocIdentity] :
                          base \in BasePlacements}
    /\ joints = [b \in Bodies |-> [l \in Labels |-> 0]]
    /\ heap = <<>>
    /\ last = BlankCall
    /\ calls = 0

\* Joint.__init__
JointInit(self, parent) == [self EXCEPT !.parent = parent, !.connected_to = 0]

\* ------------------------------------------------------------- constructors
\* RigidJoint.__init__
RigidJointInit(label, to_part, joint_location, partLoc) ==
    JointInit([BlankJoint EXCEPT !.type = "Rigid", !.label = label, !.to_part = to_part,
                                 !.relative_location = RelativeTo(joint_location, partLoc)],
              to_part)

\* a constructor that returned: the object is on the heap and bound to its label
Constructed(call, self) ==
    /\ heap' = Append(heap, self)
    /\ joints' = [joints EXCEPT ![self.to_part][self.label] = Len(heap) + 1]
    /\ last' = [call EXCEPT !.self = Len(heap) + 1]
    /\ UNCHANGED <<location, calls, pickling>>

\* a constructor that raised before binding the object to its label
ConstructionFailed(call, err) ==
    /\ last' = [call EXCEPT !.err = err]
    /\ UNCHANGED <<location, joints, heap, calls, pickling>>

NewRigidJoint ==
    \E label \in Labels, to_part \in Bodies, joint_location \in JointLocations :
        /\ Len(heap) < MaxJoints
        /\ Constructed(NewCall("RigidJoint", label, to_part, AxisZ, NoReference),
                       RigidJointInit(label, to_part, joint_location, location[to_part]))

\* RevoluteJoint.__init__ up to the reference check: the error it raises, if any
RevoluteInitError(axis, angle_reference) ==
    IF angle_reference.k = "val" /\ ~IsNormal(axis, Axis(VZero, angle_reference.v))
    THEN "ValueError"
    ELSE "none"

\* RevoluteJoint.__init__
RevoluteJointInit(label, to_part, axis, angle_reference, range, partLoc) ==
    JointInit([BlankJoint EXCEPT !.type = "Revolute", !.label = label, !.to_part = to_part,
                                 !.range = range,
                                 !.angle_reference =
                                     IF angle_reference.k = "val"
                                     THEN angle_reference.v
                                     ELSE DefaultXDir(axis.direction),
                                 !.angle = None,
                                 !.relative_axis = Located(axis, LocInverse(partLoc))],
              to_part)

NewRevoluteJoint ==
    \E label \in Labels, to_part \in Bodies, axis \in Axes,
       angle_reference \in AngleReferences, range \in AngleRanges :
        /\ Len(heap) < MaxJoints
        /\ IF RevoluteInitError(axis, angle_reference) # "none"
           THEN ConstructionFailed(NewCall("RevoluteJoint", label, to_part, axis,
                                           angle_reference),
                                   RevoluteInitError(axis, angle_reference))
           ELSE Constructed(NewCall("RevoluteJoint", label, to_part, axis, angle_reference),
                            RevoluteJointInit(label, to_part, axis, angle_reference, range,
                                              location[to_part]))

\* LinearJoint.__init__
LinearJointInit(label, to_part, axis, range, partLoc) ==
    JointInit([BlankJoint EXCEPT !.type = "Linear", !.label = label, !.to_part = to_part,
                                 !.axis = axis, !.range = range, !.position = None,
                                 !.relative_axis = Located(axis, LocInverse(partLoc))],
              to_part)

NewLinearJoint ==
    \E label \in Labels, to_part \in Bodies, axis \in Axes,
       range \in LinearRanges \cup InvertedRanges :
        /\ Len(heap) < MaxJoints
        /\ Constructed(NewCall("LinearJoint", label, to_part, axis, NoReference),
                       LinearJointInit(label, to_part, axis, range, location[to_part]))

\* CylindricalJoint.__init__ up to the reference check: a supplied reference is
\* tested through self.angle_reference, which is not assigned yet
CylindricalInitError(axis, angle_reference) ==
    IF angle_reference.k = "val" THEN "AttributeError" ELSE "none"

\* CylindricalJoint.__init__
CylindricalJointInit(label, to_part, axis, angle_reference, linear_range, rotational_range, partLoc) ==
    JointInit([BlankJoint EXCEPT !.type = "Cylindrical", !.label = label,
                                 !.to_part = to_part, !.axis = axis,
                                 !.linear_position = None, !.rotational_position = None,
                                 !.angle_reference =
                                     IF angle_reference.k = "val"
                                     THEN angle_reference.v
                                     ELSE DefaultXDir(axis.direction),
                                 !.rotational_range = rotational_range,
                                 !.linear_range = linear_range,
                                 !.relative_axis = Located(axis, LocInverse(partLoc))],
              to_part)

NewCylindricalJoint ==
    \E label \in Labels, to_part \in Bodies, axis \in Axes,
       angle_reference \in AngleReferences, linear_range \in LinearRanges,
       rotational_range \in AngleRanges :
        /\ Len(heap) < MaxJoints
        /\ IF CylindricalInitError(axis, angle_reference) # "none"
           THEN ConstructionFailed(NewCall("CylindricalJoint", label, to_part, axis,
                                           angle_reference),
                                   CylindricalInitError(axis, angle_reference))
           ELSE Constructed(NewCall("CylindricalJoint", label, to_part, axis,
                                    angle_reference),
                            CylindricalJointInit(label, to_part, axis, angle_reference,
                                                 linear_range, rotational_range,
                                                 location[to_part]))

\* BallJoint.__init__ (angle_reference is left at its default, Plane.XY)
BallJointInit(label, to_part, joint_location, angle_range, partLoc) ==
    JointInit([BlankJoint EXCEPT !.type = "Ball", !.label = label, !.to_part = to_part,
                                 !.relative_location = RelativeTo(joint_location, partLoc),
                                 !.angle_range = angle_range],
              to_part)

NewBallJoint ==
    \E label \in Labels, to_part \in Bodies, joint_location \in JointLocations,
       angle_range \in BallRanges :
        /\ Len(heap) < MaxJoints
        /\ Constructed(NewCall("BallJoint", label, to_part, AxisZ, NoReference),
                       BallJointInit(label, to_part, joint_location, angle_range,
                                     location[to_part]))

\* ------------------------------------------------------------------ connect
\* what a connect_to call leaves behind: the error it raised ("none" when it
\* returned), the calling joint's attributes, and the location given to
\* other.parent when locate() was reached
Outcome(err, self, moved, new_location) ==
    [err |-> err, self |-> self, moved |-> moved, new_location |-> new_location]

Raised(err, self) == Outcome(err, self, FALSE, LocIdentity)

\* a range check that leaves the upper bound out
InRangeBelowMax(range, x) == range[1] <= x /\ x < range[2]

\* range[0] <= x <= range[1]
InRange(range, x) == range[1] <= x /\ x <= range[2]

\* isinstance(other, RigidJoint)
IsRigid(other) == other.type = "Rigid"

\* the classes that assign relative_location
HasRelativeLocation(other) == other.type \in {"Rigid", "Ball"}

\* a RigidJoint.connect_to that inverts the partner's relative location, as the
\* other classes do
RigidConnectToInverse(self, other, o, selfLoc) ==
    IF other.type \notin {"Rigid", "Ball"}
    THEN [err |-> "AttributeError", self |-> self, moved |-> FALSE,
          new_location |-> LocIdentity]
    ELSE [err |-> "none", self |-> [self EXCEPT !.connected_to = o], moved |-> TRUE,
          new_location |-> LocMul(LocMul(selfLoc, self.relative_location),
                                  LocInverse(other.relative_location))]

\* RigidJoint.connect_to
RigidConnectTo(self, other, o, selfLoc) ==
    IF ~HasRelativeLocation(other)
    THEN Raised("AttributeError", self)
    ELSE Outcome("none", [self EXCEPT !.connected_to = o], TRUE,
                 LocMul(LocMul(selfLoc, self.relative_location), other.relative_location))

\* the substitution with its branches exchanged
AvoidZeroExchanged(angle) == IF angle = 0 THEN angle ELSE 360

\* "Avoid strange rotations when angle is zero by using 360 instead"
AvoidZero(angle) == IF angle = 0 THEN 360 ELSE angle

\* RevoluteJoint.connect_to
RevoluteConnectTo(self, other, o, selfLoc, angle) ==
    IF ~IsRigid(other)
    THEN Raised("TypeError", self)
    ELSE LET a == IF angle.k = "none" THEN self.range[1] ELSE angle.v
         IN  IF ~InRange(self.range, a)
             THEN Raised("ValueError", self)
             ELSE LET s1 == [self EXCEPT !.angle = Val(a)]
                      x_dir == VRotate(self.angle_reference, AxisZ.direction, AvoidZero(a))
                  IN  IF ~PlaneOK(x_dir, VZ)
                      THEN Raised("KernelError", s1)
                      ELSE Outcome("none", [s1 EXCEPT !.connected_to = o], TRUE,
                                   LocMul(LocMul(LocMul(selfLoc,
                                                        AxisToLocation(self.relative_axis)),
                                                 LocOfPlane(VZero, x_dir, VZ)),
                                          LocInverse(other.relative_location)))

\* a default that takes the range's minimum for its middle
MiddleAsMinimum(range) == range[1]

\* sum(range) / 2, exact for the ranges of the model (their sums are even)
Middle(range) == (range[1] + range[2]) \div 2

\* isinstance(other, (RigidJoint, RevoluteJoint))
IsRigidOrRevolute(other) == other.type \in {"Rigid", "Revolute"}

\* LinearJoint.connect_to turning the partner's reference about the caller's own axis
LinearConnectToOwnAxis(self, other, o, selfLoc, position, angle) ==
    IF ~IsRigidOrRevolute(other)
    THEN Raised("TypeError", self)
    ELSE LET p == IF position.k = "none" THEN Middle(self.range) ELSE position.v
         IN  IF ~InRange(self.range, p)
             THEN Raised("ValueError", self)
             ELSE LET s1 == [self EXCEPT !.position = Val(p)]
                      a == IF other.type = "Revolute"
                           THEN (IF angle.k = "none" THEN other.range[1] ELSE angle.v)
                           ELSE 0
                      x_dir == VRotate(other.angle_reference, self.relative_axis.direction, a)
                      z_dir == self.relative_axis.direction
                      rotation == IF other.type = "Revolute"
                                  THEN LocOfPlane(VZero, x_dir, z_dir)
                                  ELSE LocIdentity
                      joint_relative_position ==
                          LocMul(LocOfVector(VAdd(self.relative_axis.position,
                                                  VScale(self.relative_axis.direction, p))),
                                 rotation)
                  IN  IF other.type = "Revolute" /\ ~InRange(other.range, a)
                      THEN Raised("ValueError", s1)
                      ELSE IF other.type = "Revolute" /\ ~PlaneOK(x_dir, z_dir)
                      THEN Raised("KernelError", s1)
                      ELSE Outcome("none", [s1 EXCEPT !.angle = Val(a), !.connected_to = o],
                                   TRUE, LocMul(selfLoc, joint_relative_position))

\* LinearJoint.connect_to
LinearConnectTo(self, other, o, selfLoc, position, angle) ==
    IF ~IsRigidOrRevolute(other)
    THEN Raised("TypeError", self)
    ELSE LET p == IF position.k = "none" THEN Middle(self.range) ELSE position.v
         IN  IF ~InRange(self.range, p)
             THEN Raised("ValueError", self)
             ELSE LET s1 == [self EXCEPT !.position = Val(p)]
                      a == IF other.type = "Revolute"
                           THEN (IF angle.k = "none" THEN other.range[1] ELSE angle.v)
                           ELSE 0
                      x_dir == VRotate(other.angle_reference, other.relative_axis.direction, a)
                      z_dir == other.relative_axis.direction
                      rotation == IF other.type = "Revolute"
                                  THEN LocOfPlane(VZero, x_dir, z_dir)
                                  ELSE LocIdentity
                      joint_relative_position ==
                          LocMul(LocOfVector(VAdd(self.relative_axis.position,
                                                  VScale(self.relative_axis.direction, p))),
                                 rotation)
                  IN  IF other.type = "Revolute" /\ ~InRange(other.range, a)
                      THEN Raised("ValueError", s1)
                      ELSE IF other.type = "Revolute" /\ ~PlaneOK(x_dir, z_dir)
                      THEN Raised("KernelError", s1)
                      ELSE Outcome("none", [s1 EXCEPT !.angle = Val(a), !.connected_to = o],
                                   TRUE, LocMul(selfLoc, joint_relative_position))

\* CylindricalJoint.connect_to
CylindricalConnectTo(self, other, o, selfLoc, position, angle) ==
    IF ~IsRigid(other)
    THEN Raised("TypeError", self)
    ELSE LET p == IF position.k = "none" THEN Middle(self.linear_range) ELSE position.v
         IN  IF ~InRange(self.linear_range, p)
             THEN Raised("ValueError", self)
             ELSE LET s1 == [self EXCEPT !.position = Val(p)]
                      a == IF angle.k = "none" THEN Middle(self.rotational_range) ELSE angle.v
                      s2 == [s1 EXCEPT !.angle = Val(a)]
                      joint_relative_position ==
                          LocOfVector(VAdd(self.relative_axis.position,
                                           VScale(self.relative_axis.direction, p)))
                      x_dir == VRotate(self.angle_reference, self.relative_axis.direction, a)
                      z_dir == self.relative_axis.direction
                  IN  IF ~InRange(self.rotational_range, a)
                      THEN Raised("ValueError", s1)
                      ELSE IF ~PlaneOK(x_dir, z_dir)
                      THEN Raised("KernelError", s2)
                      ELSE Outcome("none", [s2 EXCEPT !.connected_to = o], TRUE,
                                   LocMul(LocMul(selfLoc, joint_relative_position),
                                          LocOfPlane(VZero, x_dir, z_dir)))

\* BallJoint.connect_to
BallConnectTo(self, other, o, selfLoc, angles) ==
    IF ~IsRigid(other)
    THEN Raised("TypeError", self)
    ELSE LET given == IF angles.k = "none"
                      THEN <<self.angle_range[1][1], self.angle_range[2][1],
                             self.angle_range[3][1]>>
                      ELSE angles.v
             rotation == LocMul(Rotation(given[1], given[2], given[3]), PlaneXYLocation)
             orientation == Orientation(rotation)
         IN  IF \E i \in 1..3 : ~InRange(self.angle_range[i], orientation[i])
             THEN Raised("ValueError", self)
             ELSE Outcome("none", [self EXCEPT !.connected_to = o], TRUE,
                          LocMul(LocMul(LocMul(selfLoc, self.relative_location), rotation),
                                 LocInverse(other.relative_location)))

\* a connect_to that also links the partner joint back to the caller
ConnectedBothWays(call, out) ==
    /\ calls < MaxCalls
    /\ calls' = calls + 1
    /\ location' = IF out.moved
                   THEN [location EXCEPT ![heap[call.other].parent] = out.new_location]
                   ELSE location
    /\ heap' = IF out.moved
               THEN [[heap EXCEPT ![call.self] = out.self]
                        EXCEPT ![call.other].connected_to = call.self]
               ELSE [heap EXCEPT ![call.self] = out.self]
    /\ last' = [call EXCEPT !.err = out.err,
                             !.repeated = (call = [last EXCEPT !.err = "none",
                                                               !.repeated = FALSE])]
    /\ UNCHANGED <<joints, pickling>>

\* the effect of a connect_to call on the program's state
Connected(call, out) ==
    /\ calls < MaxCalls
    /\ calls' = calls + 1
    /\ location' = IF out.moved
                   THEN [location EXCEPT ![heap[call.other].parent] = out.new_location]
                   ELSE location
    /\ heap' = [heap EXCEPT ![call.self] = out.self]
    /\ last' = [call EXCEPT !.err = out.err,
                             !.repeated = (call = [last EXCEPT !.err = "none",
                                                               !.repeated = FALSE])]
    /\ UNCHANGED <<joints, pickling>>

Joints == 1..Len(heap)

RigidConnect ==
    \E j \in Joints, o \in Joints :
        /\ heap[j].type = "Rigid"
        /\ Connected(ConnectCall("Rigid.connect_to", j, o, None, None, NoAngles),
                     RigidConnectTo(heap[j], heap[o], o, location[heap[j].parent]))

RevoluteConnect ==
    \E j \in Joints, o \in Joints, angle \in AngleArgs :
        /\ heap[j].type = "Revolute"
        /\ Connected(ConnectCall("Revolute.connect_to", j, o, None, angle, NoAngles),
                     RevoluteConnectTo(heap[j], heap[o], o, location[heap[j].parent], angle))

LinearConnect ==
    \E j \in Joints, o \in Joints, position \in PositionArgs, angle \in AngleArgs :
        /\ heap[j].type = "Linear"
        /\ Connected(ConnectCall("Linear.connect_to", j, o, position, angle, NoAngles),
                     LinearConnectTo(heap[j], heap[o], o, location[heap[j].parent],
                                     position, angle))

CylindricalConnect ==
    \E j \in Joints, o \in Joints, position \in PositionArgs, angle \in AngleArgs :
        /\ heap[j].type = "Cylindrical"
        /\ Connected(ConnectCall("Cylindrical.connect_to", j, o, position, angle, NoAngles),
                     CylindricalConnectTo(heap[j], heap[o], o, location[heap[j].parent],
                                          position, angle))

BallConnect ==
    \E j \in Joints, o \in Joints, angles \in AnglesArgs :
        /\ heap[j].type = "Ball"
        /\ Connected(ConnectCall("Ball.connect_to", j, o, None, None, angles),
                     BallConnectTo(heap[j], heap[o], o, location[heap[j].parent], angles))

Next ==
    \/ NewRigidJoint
    \/ NewRevoluteJoint
    \/ NewLinearJoint
    \/ NewCylindricalJoint
    \/ NewBallJoint
    \/ RigidConnect
    \/ RevoluteConnect
    \/ LinearConnect
    \/ CylindricalConnect
    \/ BallConnect

Spec == Init /\ [][Next]_vars

\* -------------------------------------------------------------- persistence
\* the locations handed to pickle
PickleRotations == {Rotation(e[1], e[2], e[3]).r : e \in EulerCandidates}
PickleTranslations == {t \in (0..MaxPickleCoord) \X (-1..0) \X {0} : TRUE}
PickleLocations == {Loc(r, t) : r \in PickleRotations, t \in PickleTranslations}

\* one signed number as the byte the serializer writes for it
Byte(n) == n % 256

\* ocp_serializer.serialize_location: the rotation's columns, then the translation
Encode(l) ==
    [i \in 1..12 |-> Byte(IF i <= 9 THEN l.r[((i - 1) \div 3) + 1][((i - 1) % 3) + 1]
                                    ELSE l.t[i - 9])]

\* serialize_location
serialize_location(loc) ==
    IF loc.k = "none" THEN NoBuffer ELSE SomeBuffer(Encode(loc.v))

\* deserialize_location: returns None for None, and falls off its end otherwise
deserialize_location(buf) ==
    IF buf.k = "none" THEN NoLocation ELSE NoLocation

\* reduce_location: the argument pickle will hand to deserialize_location
reduce_location(loc) == serialize_location(loc)

InitPersistence ==
    /\ location = [b \in Bodies |-> LocIdentity]
    /\ joints = [b \in Bodies |-> [l \in Labels |-> 0]]
    /\ heap = <<>>
    /\ last = BlankCall
    /\ calls = 0
    /\ subject \in {NoLocation} \cup {SomeLocation(l) : l \in PickleLocations}
    /\ buffer = NoBuffer
    /\ loaded = NoLocation
    /\ stage = "start"

\* pickle.dumps of a TopLoc_Location: copyreg calls reduce_location
Dump ==
    /\ stage = "start"
    /\ subject.k = "val"
    /\ buffer' = reduce_location(subject)
    /\ stage' = "dumped"
    /\ UNCHANGED <<location, joints, heap, last, calls, subject, loaded>>

\* a direct call serialize_location(None)
SerializeNone ==
    /\ stage = "start"
    /\ subject.k = "none"
    /\ buffer' = serialize_location(subject)
    /\ stage' = "dumped"
    /\ UNCHANGED <<location, joints, heap, last, calls, subject, loaded>>

\* pickle.loads, or a direct call: deserialize_location(buffer)
Load ==
    /\ stage = "dumped"
    /\ loaded' = deserialize_location(buffer)
    /\ stage' = "loaded"
    /\ UNCHANGED <<location, joints, heap, last, calls, subject, buffer>>

NextPersistence ==
    \/ Dump
    \/ SerializeNone
    \/ Load

SpecPersistence == InitPersistence /\ [][NextPersistence]_vars

\* ------------------------------------------------------------------- claims
\* the partner classes each class documents for connect_to
AcceptedPartners(type) == IF type = "Linear" THEN {"Rigid", "Revolute"} ELSE {"Rigid"}

\* the position and angle a call resolves to: the argument, or the class's default
ResolvedPosition(call, range) ==
    IF call.position.k = "none" THEN (range[1] + range[2]) \div 2 ELSE call.position.v

ResolvedAngle(call, default) ==
    IF call.angle.k = "none" THEN default ELSE call.angle.v

Outside(range, x) == x < range[1] \/ x > range[2]

\* C1: a connect_to call that raises TypeError or ValueError leaves every body's
\* placement and every attribute of the calling joint as they were before the call
C1_FailedConnectChangesNothing ==
    [][(calls' # calls /\ last'.err \in {"TypeError", "ValueError"})
           => (location' = location /\ heap' = heap)]_vars

\* C2: a connect_to call whose partner is not of a class the caller accepts raises
\* TypeError and moves no body
C2_PartnerTypeChecked ==
    [][(calls' # calls
            /\ heap[last'.other].type \notin AcceptedPartners(heap[last'.self].type))
           => (last'.err = "TypeError" /\ location' = location)]_vars

\* C3: with an accepted partner, Revolute, Linear and Cylindrical connect_to raise
\* ValueError exactly when a resolved position or angle lies outside its closed
\* range; the bounds themselves are accepted
C3_RangeErrorIffOutside ==
    (last.op \in {"Revolute.connect_to", "Linear.connect_to", "Cylindrical.connect_to"}
        /\ heap[last.other].type \in AcceptedPartners(heap[last.self].type))
    => LET self == heap[last.self]
           other == heap[last.other]
           outside ==
               CASE self.type = "Revolute" ->
                        Outside(self.range, ResolvedAngle(last, self.range[1]))
                 [] self.type = "Linear" ->
                        \/ Outside(self.range, ResolvedPosition(last, self.range))
                        \/ /\ other.type = "Revolute"
                           /\ Outside(other.range, ResolvedAngle(last, other.range[1]))
                 [] self.type = "Cylindrical" ->
                        \/ Outside(self.linear_range,
                                   ResolvedPosition(last, self.linear_range))
                        \/ Outside(self.rotational_range,
                                   ResolvedAngle(last, (self.rotational_range[1]
                                                        + self.rotational_range[2]) \div 2))
       IN  (last.err = "ValueError") <=> outside

\* C3 witness: a Cylindrical call whose position sits on the upper bound and is
\* accepted, and whose angle is beyond the rotational range
C3_Witness ==
    /\ last.op = "Cylindrical.connect_to"
    /\ heap[last.other].type = "Rigid"
    /\ last.position = Val(heap[last.self].linear_range[2])
    /\ last.angle = Val(450)
    /\ last.err = "ValueError"

\* C4: connect_to leaves the placement of the calling joint's own body as it was,
\* whichever pair of joints it is called on
C4_CallerBodyNotMoved ==
    [][calls' # calls
           => location'[heap[last'.self].parent] = location[heap[last'.self].parent]]_vars

\* C5: after a connect_to that returned, the calling joint holds connected_to =
\* partner and the resolved parameters of the call, Cylindrical in the attributes
\* its constructor declares for them (linear_position, rotational_position), Ball
\* in some attribute
C5_ParametersRecorded ==
       (last.op \in ConnectOps /\ last.err = "none")
           => LET self == heap[last.self]
                  other == heap[last.other]
              IN  /\ self.connected_to = last.other
                  /\ CASE self.type = "Rigid" -> TRUE
                       [] self.type = "Revolute" ->
                              self.angle = Val(ResolvedAngle(last, self.range[1]))
                       [] self.type = "Linear" ->
                              /\ self.position = Val(ResolvedPosition(last, self.range))
                              /\ self.angle = Val(IF other.type = "Revolute"
                                                  THEN ResolvedAngle(last, other.range[1])
                                                  ELSE 0)
                       [] self.type = "Cylindrical" ->
                              /\ self.linear_position
                                     = Val(ResolvedPosition(last, self.linear_range))
                              /\ self.rotational_position
                                     = Val(ResolvedAngle(last, (self.rotational_range[1]
                                                                + self.rotational_range[2])
                                                               \div 2))
                       [] self.type = "Ball" ->
                              \E f \in {"angle", "position", "linear_position",
                                        "rotational_position"} : self[f].k = "val"

\* C6: RigidJoint.connect_to writes other.parent.location = self.parent.location *
\* self.relative_location * other.relative_location, and the same call made again,
\* the calling body not having moved, writes the same location again
C6_RigidClosedFormIdempotent ==
    [][(calls' # calls /\ last'.op = "Rigid.connect_to" /\ last'.err = "none")
           => LET self == heap[last'.self]
                  other == heap[last'.other]
              IN  /\ location'[other.parent]
                         = LocMul(LocMul(location[self.parent], self.relative_location),
                                  other.relative_location)
                  /\ (last'.repeated /\ last.err = "none" /\ self.parent # other.parent)
                         => location' = location]_vars

\* C6 witness: the second of two equal RigidJoint.connect_to calls between two bodies
C6_Witness ==
    /\ last.op = "Rigid.connect_to"
    /\ last.err = "none"
    /\ last.repeated
    /\ heap[last.self].parent # heap[last.other].parent

\* C7: RevoluteJoint.connect_to writes other.parent.location = self.parent.location *
\* relative_axis.to_location() * rotation * other.relative_location.inverse(), and
\* the rotation for angle 0 is the rotation for angle 360
C7_RevoluteZeroIsFullTurn ==
    [][(calls' # calls /\ last'.op = "Revolute.connect_to" /\ last'.err = "none")
           => LET self == heap[last'.self]
                  other == heap[last'.other]
                  a == ResolvedAngle(last', self.range[1])
                  turn == IF a \in {0, 360} THEN 360 ELSE a
                  rotation == LocOfPlane(VZero, VRotate(self.angle_reference, VZ, turn), VZ)
              IN  location'[other.parent]
                      = LocMul(LocMul(LocMul(location[self.parent],
                                             AxisToLocation(self.relative_axis)),
                                      rotation),
                               LocInverse(other.relative_location))]_vars

\* C7 witness: a Revolute call with angle=0 that returned
C7_Witness ==
    /\ last.op = "Revolute.connect_to"
    /\ last.angle = Val(0)
    /\ last.err = "none"

\* C8: LinearJoint.connect_to that returned used the middle of its range for an
\* omitted position, the partner's range minimum for an omitted angle with a
\* Revolute partner, and angle 0 with a Rigid partner whatever angle was given
C8_LinearDefaults ==
    [][(calls' # calls /\ last'.op = "Linear.connect_to" /\ last'.err = "none")
           => LET self == heap'[last'.self]
                  other == heap[last'.other]
                  p == ResolvedPosition(last', self.range)
              IN  /\ self.position = Val(p)
                  /\ ~Outside(self.range, p)
                  /\ other.type = "Revolute"
                         => /\ self.angle = Val(ResolvedAngle(last', other.range[1]))
                            /\ ~Outside(other.range, self.angle.v)
                  /\ other.type = "Rigid"
                         => /\ self.angle = Val(0)
                            /\ location'[other.parent]
                                   = LocMul(location[heap[last'.self].parent],
                                            LocOfVector(VAdd(self.relative_axis.position,
                                                             VScale(self.relative_axis.direction,
                                                                    p))))]_vars

\* C8 witness: a Linear call with a Revolute partner, position and angle both omitted
C8_Witness ==
    /\ last.op = "Linear.connect_to"
    /\ last.position = None
    /\ last.angle = None
    /\ heap[last.other].type = "Revolute"
    /\ last.err = "none"

\* C9: constructing a RevoluteJoint or CylindricalJoint with a reference direction
\* normal to the axis returns, stores the direction and binds the label; with one
\* that is not normal it raises ValueError and leaves the joints map alone; with
\* none it returns with the x direction of the axis's frame
C9_ReferenceDirectionChecked ==
    [][last'.op \in {"RevoluteJoint", "CylindricalJoint"}
           => IF last'.angle_reference.k = "val"
              THEN IF Dot(last'.axis.direction, last'.angle_reference.v) = 0
                   THEN /\ last'.err = "none"
                        /\ heap'[last'.self].angle_reference = last'.angle_reference.v
                        /\ joints'[last'.to_part][last'.label] = last'.self
                   ELSE /\ last'.err = "ValueError"
                        /\ joints' = joints
              ELSE /\ last'.err = "none"
                   /\ heap'[last'.self].angle_reference = DefaultXDir(last'.axis.direction)]_vars

\* C10: what deserialize_location returns for the buffer serialize_location made of a
\* location is that location, and None for None
C10_LocationRoundTrips ==
    stage = "loaded" => loaded = subject

\* what a joint's constructor stores and no method assigns again: its class, label,
\* owning body, relative geometry, reference direction and ranges
StoredGeometry(j) ==
    <<j.type, j.label, j.to_part, j.parent, j.relative_location, j.axis, j.relative_axis,
      j.angle_reference, j.range, j.linear_range, j.rotational_range, j.angle_range>>

\* C11: no step changes what an existing joint's constructor stored; a connect_to
\* that returned changed nothing but the partner body's placement and the calling
\* joint's connected_to and recorded parameters: every other joint (the partner
\* joint's connected_to and parameters included), every other body's placement and
\* every body's joints map are as before
C11_ConnectWritesOnlyPartnerAndCaller ==
    [][/\ \A j \in Joints : StoredGeometry(heap'[j]) = StoredGeometry(heap[j])
       /\ (calls' # calls /\ last'.err = "none")
              => /\ \A b \in Bodies \ {heap[last'.other].parent} :
                        location'[b] = location[b]
                 /\ \A j \in Joints \ {last'.self} : heap'[j] = heap[j]
                 /\ joints' = joints]_vars

\* C11 witness: the second connect_to returned, between two joints of different
\* bodies, and the partner joint still is connected to nothing
C11_Witness ==
    /\ calls = 2
    /\ last.op \in ConnectOps
    /\ last.err = "none"
    /\ last.self # last.other
    /\ heap[last.self].parent # heap[last.other].parent
    /\ heap[last.self].connected_to = last.other
    /\ heap[last.other].connected_to = 0

\* min <= max
Ordered(range) == range[1] <= range[2]

\* C12: in every reachable state every range stored on a joint (Revolute and Linear
\* range, Cylindrical linear_range and rotational_range, each of Ball's three angle
\* ranges) has min <= max
C12_RangesOrdered ==
    \A j \in Joints :
        /\ Ordered(heap[j].range)
        /\ Ordered(heap[j].linear_range)
        /\ Ordered(heap[j].rotational_range)
        /\ \A i \in 1..3 : Ordered(heap[j].angle_range[i])

\* C13: no two joints owned by the same body carry the same label, and every joint
\* is the value stored under its label in its owning body's joints map
C13_LabelsUniquePerBody ==
    /\ \A j, k \in Joints :
           (j # k /\ heap[j].parent = heap[k].parent) => heap[j].label # heap[k].label
    /\ \A j \in Joints : joints[heap[j].parent][heap[j].label] = j

\* frame(axis.origin + axis.direction * position) of a LinearJoint
SliderFrame(self, p) ==
    LocOfVector(VAdd(self.relative_axis.position, VScale(self.relative_axis.direction, p)))

\* the frame whose Z is direction d and whose X is the reference turned by a about d
PinFrame(reference, d, a) == LocOfPlane(VZero, VRotate(reference, d, a), d)

\* the placement C14 names, the pin's frame taken about direction d
SliderPlacement(self, other, call, selfLoc, d) ==
    LocMul(selfLoc,
           LocMul(SliderFrame(self, ResolvedPosition(call, self.range)),
                  IF other.type = "Revolute"
                  THEN PinFrame(other.angle_reference, d,
                                ResolvedAngle(call, other.range[1]))
                  ELSE LocIdentity))

====
